---- MODULE Spec2Model ----
(***************************************************************************)
(* Magic CV: the POST /api/tailor-cv request handler of the server and the *)
(* form-submit handler of the browser client.                              *)
(*                                                                         *)
(* One request is followed from its arrival to the end of every task it    *)
(* started.  JavaScript runs each callback to completion, microtasks       *)
(* included, so one action is one run of the event loop: the code between  *)
(* two suspensions on I/O (extraction, a completion call, the end of a     *)
(* rendering).                                                             *)
(***************************************************************************)
EXTENDS Integers, Sequences, FiniteSets, TLC

VARIABLES
    pc,                 \* position of the route handler
    req,                \* the request: origin, jobDescription, options string, file
    uploadsDir,         \* names of the files in the upload directory
    unlinkCount,        \* number of fs.unlinkSync calls made
    extractCalls,       \* number of parseCVContent calls made
    calls,              \* number of callDeepSeek calls made, per purpose
    cvContent,          \* text extracted from the upload
    tailoredCVResponse, \* text returned by the resume completion
    cvData,             \* parsed resume JSON
    candidateName,      \* cvData.personalInfo.fullName
    results,            \* the results object shared by the tasks
    promises,           \* kinds whose task was pushed, in push order
    tasks,              \* state of each fan-out task
    responses,          \* responses sent for the request, in order
    selectedFormat,     \* browser: format chosen by the toggle
    clientResults,      \* browser: its results variable, the last payload
    clientPc,           \* browser: position of the submit handler
    sentOptions,        \* browser: the options const of the pending submit
    saved               \* browser: the last blob handed to saveAs

serverVars == <<pc, req, uploadsDir, unlinkCount, extractCalls, calls, cvContent,
                tailoredCVResponse, cvData, candidateName, results, promises,
                tasks, responses>>

browserVars == <<selectedFormat, clientResults, clientPc, sentOptions, saved>>

vars == <<serverVars, browserVars>>

----------------------------------------------------------------------------
(* Bounds *)

\* longest completion text, in tokens
MaxLen == 3

----------------------------------------------------------------------------
(* Values *)

Kinds == {"cv", "coverLetter", "email"}
Formats == {"docx", "pdf"}

PDF == "application/pdf"
DOCX == "application/vnd.openxmlformats-officedocument.wordprocessingml.document"
TXT == "text/plain"

\* the file written by multer's disk storage for this request
UploadName == "upload"

\* JavaScript's undefined, where a string is expected
Undefined == "undefined"

\* the fields of ResumeData the renderers dereference
Fields == {"personalInfo", "fullName", "experience", "skills", "education"}

\* JSON values the resume completion may carry: null, or an object with
\* some of the fields (fullName lives inside personalInfo)
JSONNull == [kind |-> "null", fields |-> {}]
JSONObject(fs) == [kind |-> "object", fields |-> fs]
NotParsed == [kind |-> "unset", fields |-> {}]

ResumeShapes ==
    {JSONNull, JSONObject({}), JSONObject(Fields)}
    \cup {JSONObject(Fields \ {f}) : f \in Fields \ {"personalInfo"}}
    \cup {JSONObject(Fields \ {"personalInfo", "fullName"})}

FullName == "Jane Doe"

\* tokens of a completion text: the two code-fence markers the handler
\* strips, whitespace, one JSON value, and text that is not JSON
FenceJson == "fence-json"
Fence == "fence"
Space == "space"
Value == "value"
Junk == "junk"
Tokens == {FenceJson, Fence, Space, Value, Junk}

RECURSIVE SeqsUpTo(_, _)
SeqsUpTo(S, n) ==
    IF n = 0 THEN {<<>>}
    ELSE LET shorter == SeqsUpTo(S, n - 1)
         IN shorter \cup {Append(s, t) : s \in {x \in shorter : Len(x) = n - 1}, t \in S}

Texts == SeqsUpTo(Tokens, MaxLen)

----------------------------------------------------------------------------
(* Pure helpers of the handler *)

\* tailoredCVResponse.replace(/```json|```/g, ""): every fence marker goes,
\* wherever it stands
RECURSIVE StripFences(_)
StripFences(text) ==
    IF text = <<>> THEN <<>>
    ELSE IF Head(text) \in {FenceJson, Fence} THEN StripFences(Tail(text))
    ELSE <<Head(text)>> \o StripFences(Tail(text))

\* String.prototype.trim: leading and trailing whitespace goes
RECURSIVE TrimStart(_)
TrimStart(text) ==
    IF text # <<>> /\ Head(text) = Space THEN TrimStart(Tail(text)) ELSE text

RECURSIVE TrimEnd(_)
TrimEnd(text) ==
    IF text # <<>> /\ text[Len(text)] = Space
    THEN TrimEnd(SubSeq(text, 1, Len(text) - 1))
    ELSE text

Trim(text) == TrimEnd(TrimStart(text))

\* JSON.parse of a completion text: it succeeds on exactly one JSON value
\* (whitespace around it is allowed) and yields the value the text carries
JSONParse(text, carried) ==
    LET significant == SelectSeq(text, LAMBDA t : t # Space)
    IN IF significant = <<Value>>
       THEN [ok |-> TRUE, value |-> carried]
       ELSE [ok |-> FALSE, value |-> NotParsed]

\* JSON.parse(optionsStr): the options string is kept by what it parses to
ParseOptions(optionsStr) ==
    [ok |-> optionsStr.kind # "invalid", value |-> optionsStr]

\* Suffix with the email line copied from the cover letter's and not edited
SuffixCopied(k) ==
    CASE k = "cv" -> "_CV."
      [] k = "coverLetter" -> "_Cover_Letter."
      [] k = "email" -> "_Cover_Letter."

\* `${candidateName}_CV.${options.format}` and its two siblings
Suffix(k) ==
    CASE k = "cv" -> "_CV."
      [] k = "coverLetter" -> "_Cover_Letter."
      [] k = "email" -> "_Email."

\* (an undefined name is printed as the word, which is how Undefined is kept)
FileNameOf(k, name, format) == <<name, Suffix(k), format>>

\* Buffer.toString("base64")
ToBase64(buffer) == <<"base64", buffer>>

\* an object without properties
EmptyObject == [k \in {} |-> TRUE]

\* obj.key = value, on an object kept as a function
SetProp(obj, key, value) ==
    [k \in DOMAIN obj \cup {key} |-> IF k = key THEN value ELSE obj[k]]

----------------------------------------------------------------------------
(* Requests *)

OptionObjects ==
    [kind : {"object"}, cv : BOOLEAN, coverLetter : BOOLEAN, email : BOOLEAN,
     format : Formats]

OptionsOff(kind) ==
    [kind |-> kind, cv |-> FALSE, coverLetter |-> FALSE, email |-> FALSE,
     format |-> Undefined]

\* what the options field may hold: text that is not JSON, the JSON null,
\* or an options object
OptionStrings == {OptionsOff("invalid"), OptionsOff("null")} \cup OptionObjects

NoFile == [present |-> FALSE, mimetype |-> Undefined, oversize |-> FALSE]
Files == [present : {TRUE}, mimetype : {PDF, DOCX, TXT}, oversize : BOOLEAN]

\* the text of the job description field: empty, blank, or a description
JobDescriptions == {"", " ", "Senior Backend Engineer"}

\* String.prototype.trim on a job description
TrimString(s) == IF s = " " THEN "" ELSE s

\* a const of the handler that has not been initialised yet
NotReturned == <<Undefined>>

NoRequest ==
    [origin |-> "none", jobDescription |-> "", optionsStr |-> OptionsOff("invalid"),
     file |-> NoFile]

\* options as the handler reads them once JSON.parse has returned
options == req.optionsStr

TaskStates == {"unstarted", "completion", "render", "fulfilled", "rejected"}

\* nothing saved yet
NoSave == [fileName |-> <<>>, type |-> Undefined]

Init ==
    /\ pc = "idle"
    /\ req = NoRequest
    /\ uploadsDir = {}
    /\ unlinkCount = 0
    /\ extractCalls = 0
    /\ calls = [p \in {"resume", "coverLetter", "email"} |-> 0]
    /\ cvContent = Undefined
    /\ tailoredCVResponse = NotReturned
    /\ cvData = NotParsed
    /\ candidateName = Undefined
    /\ results = EmptyObject
    /\ promises = <<>>
    /\ tasks = [k \in Kinds |-> "unstarted"]
    /\ responses = <<>>
    /\ selectedFormat = "docx"
    /\ clientResults = EmptyObject
    /\ clientPc = "idle"
    /\ sentOptions = OptionsOff("object")
    /\ saved = NoSave

----------------------------------------------------------------------------
(* Upload middleware *)

allowedTypes == {PDF, DOCX}

\* fileFilter: cb(null, true) for an allowed type, cb(new Error(...)) otherwise
fileFilter(file) == file.mimetype \in allowedTypes

\* upload.single("cv"): the file is written to the upload directory when it
\* passes the filter and the size limit; otherwise multer removes what it
\* wrote and passes an error on, and the route handler is not run
UploadStored(file) == file.present /\ fileFilter(file) /\ ~file.oversize
UploadRejected(file) == file.present /\ ~UploadStored(file)

UploadError(file) ==
    IF ~fileFilter(file)
    THEN "Invalid file type. Only PDF and DOCX files are allowed."
    ELSE "File too large"

----------------------------------------------------------------------------
(* Responses *)

Send(status, body) == responses' = Append(responses, [status |-> status, body |-> body])

\* no error-handling middleware is registered: an error passed on by multer
\* is answered by the framework's default handler, with a page and not with
\* a JSON body
DefaultErrorHandler(message) == Send(500, [html |-> message])

\* catch (err) { res.status(500).json({ error: err.message }) }
Catch(message) ==
    /\ Send(500, [error |-> message])
    /\ pc' = "done"

\* fs.unlinkSync(cvFile.path); res.json({ success: true, ...results })
Succeed(finalResults) ==
    /\ uploadsDir' = uploadsDir \ {UploadName}
    /\ unlinkCount' = unlinkCount + 1
    /\ Send(200, SetProp(finalResults, "success", TRUE))
    /\ pc' = "done"

----------------------------------------------------------------------------
(* The route handler, up to the resume JSON *)

\* the request passes multer and the handler runs up to its first await:
\* JSON.parse(optionsStr), req.file, and the call of parseCVContent
Receive(r) ==
    /\ pc = "idle"
    /\ UNCHANGED browserVars
    /\ req' = r
    /\ UNCHANGED <<unlinkCount, calls, cvContent, tailoredCVResponse, cvData,
                   candidateName, results, promises, tasks>>
    /\ IF UploadRejected(r.file)
       THEN /\ DefaultErrorHandler(UploadError(r.file))
            /\ pc' = "done"
            /\ UNCHANGED <<uploadsDir, extractCalls>>
       ELSE /\ uploadsDir' = IF UploadStored(r.file)
                             THEN uploadsDir \cup {UploadName}
                             ELSE uploadsDir
            /\ IF ~ParseOptions(r.optionsStr).ok
               THEN Catch("Unexpected token in JSON") /\ UNCHANGED extractCalls
               ELSE IF ~r.file.present
               THEN Catch("Cannot read properties of undefined (reading 'path')")
                    /\ UNCHANGED extractCalls
               ELSE /\ extractCalls' = extractCalls + 1
                    /\ pc' = "extract"
                    /\ UNCHANGED responses

\* the submit handler of the form: it returns before fetch when the trimmed
\* job description is empty, no file is chosen or no document is ticked
ClientValid(jobDescription, file, opts) ==
    /\ TrimString(jobDescription) # ""
    /\ file.present
    /\ opts.cv \/ opts.coverLetter \/ opts.email

Submit ==
    \E jd \in JobDescriptions, file \in Files \cup {NoFile}, opts \in OptionObjects :
        /\ ClientValid(jd, file, opts)
        /\ Receive([origin |-> "browser", jobDescription |-> TrimString(jd),
                    optionsStr |-> opts, file |-> file])

\* any other HTTP client: the fields are whatever it sends
DirectPost ==
    \E jd \in JobDescriptions, file \in Files \cup {NoFile}, opts \in OptionStrings :
        Receive([origin |-> "direct", jobDescription |-> jd,
                 optionsStr |-> opts, file |-> file])

\* IssueCall with one retry of the post
IssueCallRetry(c, purpose) == [c EXCEPT ![purpose] = @ + 2]

\* callDeepSeek: one axios.post per call, no retry
IssueCall(c, purpose) == [c EXCEPT ![purpose] = @ + 1]

\* parseCVContent returns (pdf-parse or mammoth, by mimetype) or throws; on
\* success generateTailoredCV issues the resume completion call
ExtractDone ==
    /\ pc = "extract"
    /\ UNCHANGED browserVars
    /\ UNCHANGED <<req, uploadsDir, unlinkCount, extractCalls, tailoredCVResponse,
                   cvData, candidateName, results, promises, tasks>>
    /\ \E ok \in BOOLEAN :
        IF ok
        THEN /\ cvContent' = "text of the upload"
             /\ calls' = IssueCall(calls, "resume")
             /\ pc' = "resume"
             /\ UNCHANGED responses
        ELSE /\ Catch("extraction failed")
             /\ UNCHANGED <<calls, cvContent>>

----------------------------------------------------------------------------
(* Fan-out *)

\* Selected with the email branch written as an else of the cover letter's
SelectedElseIf(k) == options[k] /\ (k = "email" => ~options.coverLetter)

\* if (options.cv) / if (options.coverLetter) / if (options.email)
Selected(k) == options[k]

TaskOrder == <<"cv", "coverLetter", "email">>

\* the functions the file declares; generateTextDocx is called and is not
\* among them
Declared == {"generateCVDocx", "generateCVPDF", "generateTextPDF"}

CVRenderer(format) == IF format = "pdf" THEN "generateCVPDF" ELSE "generateCVDocx"
TextRenderer(format) == IF format = "pdf" THEN "generateTextPDF" ELSE "generateTextDocx"

Title(k) == IF k = "coverLetter" THEN "Cover Letter" ELSE "Application Email"

\* generateCVDocx and generateCVPDF dereference personalInfo.fullName,
\* experience, skills and education before their first suspension: a
\* missing one throws there
CVRenderThrows(data) == ~(Fields \subseteq data.fields)

\* text returned by the cover-letter and email completions
CompletionText(k) == <<"text of", k>>

\* state of a selected task when its async function reaches its first await
StartedTask(k, data) ==
    IF k = "cv"
    THEN IF CVRenderThrows(data) THEN "rejected" ELSE "render"
    ELSE "completion"

\* the calls issued by the tasks as they start
FanOutCalls(c) ==
    LET c1 == IF Selected("coverLetter") THEN IssueCall(c, "coverLetter") ELSE c
    IN IF Selected("email") THEN IssueCall(c1, "email") ELSE c1

AllFulfilled(ps, tks) == \A i \in 1..Len(ps) : tks[ps[i]] = "fulfilled"

\* Await with a catch of its own in every task: each rejection answers
AwaitEachRejection(newTasks, newResults, rejected, message) ==
    IF rejected /\ pc \in {"all", "done"}
    THEN Catch(message) /\ UNCHANGED <<uploadsDir, unlinkCount>>
    ELSE IF pc # "all"
    THEN UNCHANGED <<pc, uploadsDir, unlinkCount, responses>>
    ELSE IF AllFulfilled(promises, newTasks)
    THEN Succeed(newResults)
    ELSE UNCHANGED <<pc, uploadsDir, unlinkCount, responses>>

\* await Promise.all(promises), re-examined after a step that changed the
\* tasks: a rejection is caught, and when every pushed promise is fulfilled
\* the file is unlinked and the payload sent; once the handler has answered,
\* a settling task changes nothing of it
Await(newTasks, newResults, rejected, message) ==
    IF pc # "all"
    THEN UNCHANGED <<pc, uploadsDir, unlinkCount, responses>>
    ELSE IF rejected
    THEN Catch(message) /\ UNCHANGED <<uploadsDir, unlinkCount>>
    ELSE IF AllFulfilled(promises, newTasks)
    THEN Succeed(newResults)
    ELSE UNCHANGED <<pc, uploadsDir, unlinkCount, responses>>

\* the resume completion fails: network error, non-2xx or malformed body
ResumeFail ==
    /\ pc = "resume"
    /\ UNCHANGED browserVars
    /\ Catch("Request failed")
    /\ UNCHANGED <<req, uploadsDir, unlinkCount, extractCalls, calls, cvContent,
                   tailoredCVResponse, cvData, candidateName, results, promises,
                   tasks>>

\* the resume completion returns: strip the fences, parse, read the name,
\* start every selected task and reach await Promise.all
ResumeDone ==
    /\ pc = "resume"
    /\ UNCHANGED browserVars
    /\ UNCHANGED <<req, extractCalls, cvContent>>
    /\ \E text \in Texts, carried \in ResumeShapes :
        LET parsed == JSONParse(Trim(StripFences(text)), carried)
            data == parsed.value
            name == IF "fullName" \in data.fields THEN FullName ELSE Undefined
            newTasks == [k \in Kinds |->
                            IF Selected(k) THEN StartedTask(k, data) ELSE "unstarted"]
            newPromises == SelectSeq(TaskOrder, Selected)
            newResults ==
                IF Selected("cv")
                THEN SetProp(EmptyObject, "cv",
                             [preview |-> text,
                              fileName |-> FileNameOf("cv", name, options.format)])
                ELSE EmptyObject
        IN /\ tailoredCVResponse' = text
           /\ cvData' = data
           /\ IF ~parsed.ok
              THEN /\ Catch("Unexpected token in JSON")
                   /\ UNCHANGED <<uploadsDir, unlinkCount, calls, candidateName,
                                  results, promises, tasks>>
              ELSE IF data.kind = "null" \/ "personalInfo" \notin data.fields
              THEN /\ Catch("Cannot read properties of undefined")
                   /\ UNCHANGED <<uploadsDir, unlinkCount, calls, candidateName,
                                  results, promises, tasks>>
              ELSE IF options.kind = "null"
              THEN /\ candidateName' = name
                   /\ Catch("Cannot read properties of null (reading 'cv')")
                   /\ UNCHANGED <<uploadsDir, unlinkCount, calls, results,
                                  promises, tasks>>
              ELSE /\ candidateName' = name
                   /\ tasks' = newTasks
                   /\ promises' = newPromises
                   /\ results' = newResults
                   /\ calls' = FanOutCalls(calls)
                   /\ IF \E k \in Kinds : newTasks[k] = "rejected"
                      THEN /\ Catch("Cannot read properties of undefined")
                           /\ UNCHANGED <<uploadsDir, unlinkCount>>
                      ELSE IF AllFulfilled(newPromises, newTasks)
                      THEN Succeed(newResults)
                      ELSE /\ pc' = "all"
                           /\ UNCHANGED <<uploadsDir, unlinkCount, responses>>

\* a cover-letter or email completion settles; on success the task stores
\* preview and fileName and calls the plain-text renderer of the format
CompletionDone(k) ==
    /\ k \in {"coverLetter", "email"}
    /\ tasks[k] = "completion"
    /\ UNCHANGED browserVars
    /\ UNCHANGED <<req, extractCalls, calls, cvContent, tailoredCVResponse,
                   cvData, candidateName, promises>>
    /\ \E ok \in BOOLEAN :
        IF ~ok
        THEN /\ tasks' = [tasks EXCEPT ![k] = "rejected"]
             /\ UNCHANGED results
             /\ Await(tasks', results, TRUE, "Request failed")
        ELSE LET stored == SetProp(results, k,
                                   [preview |-> CompletionText(k),
                                    fileName |-> FileNameOf(k, candidateName,
                                                            options.format)])
                 renderer == TextRenderer(options.format)
             IN /\ results' = stored
                /\ IF renderer \in Declared
                   THEN /\ tasks' = [tasks EXCEPT ![k] = "render"]
                        /\ Await(tasks', stored, FALSE, "")
                   ELSE /\ tasks' = [tasks EXCEPT ![k] = "rejected"]
                        /\ Await(tasks', stored, TRUE,
                                 "generateTextDocx is not defined")

\* a rendering ends: the task stores fileData and its promise is fulfilled
RenderDone(k) ==
    /\ tasks[k] = "render"
    /\ UNCHANGED browserVars
    /\ UNCHANGED <<req, extractCalls, calls, cvContent, tailoredCVResponse,
                   cvData, candidateName, promises>>
    /\ LET renderer == IF k = "cv" THEN CVRenderer(options.format)
                       ELSE TextRenderer(options.format)
           buffer == <<renderer, IF k = "cv" THEN "cvData" ELSE Title(k)>>
           stored == SetProp(results, k,
                             SetProp(results[k], "fileData", ToBase64(buffer)))
       IN /\ results' = stored
          /\ tasks' = [tasks EXCEPT ![k] = "fulfilled"]
          /\ Await(tasks', stored, FALSE, "")

Next ==
    \/ Submit
    \/ DirectPost
    \/ ExtractDone
    \/ ResumeFail
    \/ ResumeDone
    \/ \E k \in Kinds : CompletionDone(k)
    \/ \E k \in Kinds : RenderDone(k)

Spec == Init /\ [][Next]_vars

\* every extraction, completion and rendering call that was started settles:
\* its callback is eventually run by the event loop
FairSpec ==
    /\ Spec
    /\ WF_vars(ExtractDone)
    /\ WF_vars(ResumeFail \/ ResumeDone)
    /\ \A k \in Kinds : WF_vars(CompletionDone(k))
    /\ \A k \in Kinds : WF_vars(RenderDone(k))

TypeOK ==
    /\ pc \in {"idle", "extract", "resume", "all", "done"}
    /\ tasks \in [Kinds -> TaskStates]
    /\ Len(responses) <= 1

----------------------------------------------------------------------------
(* The browser client.  The server is seen through fetch: a submit is      *)
(* answered by one of the payloads the route handler can send for the      *)
(* options, or by a failure.                                               *)

\* resume texts shown in a preview
PreviewTexts == {<<Value>>, <<FenceJson, Value>>}

\* the payloads res.json({ success: true, ...results }) can carry for the
\* options: the resume needs a well-formed ResumeData, hence a name, and a
\* cover letter or an email needs a declared plain-text renderer
ServerPayloads(opts) ==
    LET renderable == \A k \in {"coverLetter", "email"} :
                          opts[k] => TextRenderer(opts.format) \in Declared
        names == IF opts.cv THEN {FullName} ELSE {FullName, Undefined}
        doc(k, name, text) ==
            [preview |-> IF k = "cv" THEN text ELSE CompletionText(k),
             fileName |-> FileNameOf(k, name, opts.format),
             fileData |-> ToBase64(<<IF k = "cv" THEN CVRenderer(opts.format)
                                     ELSE TextRenderer(opts.format),
                                     IF k = "cv" THEN "cvData" ELSE Title(k)>>)]
    IN IF ~renderable THEN {}
       ELSE {[k \in {kk \in Kinds : opts[kk]} \cup {"success"} |->
                 IF k = "success" THEN TRUE ELSE doc(k, name, text)] :
             name \in names, text \in PreviewTexts}

\* downloadFile: docx unless the format passed is pdf
MimeType(format) == IF format = "pdf" THEN PDF ELSE DOCX

\* a format button is clicked
FormatClick ==
    /\ \E f \in Formats : selectedFormat' = f
    /\ UNCHANGED <<serverVars, clientResults, clientPc, sentOptions, saved>>

\* the form is submitted (the button is disabled while a submit is pending):
\* the options take the format of the toggle as it stands, and fetch is sent
SubmitForm ==
    /\ clientPc = "idle"
    /\ \E jd \in JobDescriptions, file \in Files \cup {NoFile},
          cv \in BOOLEAN, coverLetter \in BOOLEAN, email \in BOOLEAN :
        LET opts == [kind |-> "object", cv |-> cv, coverLetter |-> coverLetter,
                     email |-> email, format |-> selectedFormat]
        IN /\ ClientValid(jd, file, opts)
           /\ sentOptions' = opts
    /\ clientPc' = "waiting"
    /\ UNCHANGED <<serverVars, selectedFormat, clientResults, saved>>

\* fetch is answered with a payload: results = data
FetchOk ==
    /\ clientPc = "waiting"
    /\ \E data \in ServerPayloads(sentOptions) : clientResults' = data
    /\ clientPc' = "idle"
    /\ UNCHANGED <<serverVars, selectedFormat, sentOptions, saved>>

\* fetch is answered with an error, or not with JSON: a toast, results stay
FetchFailed ==
    /\ clientPc = "waiting"
    /\ clientPc' = "idle"
    /\ UNCHANGED <<serverVars, selectedFormat, clientResults, sentOptions, saved>>

\* a download button is clicked and there is a document of its kind:
\* downloadFile(results[k].fileData, results[k].fileName, selectedFormat)
Download(k) ==
    /\ k \in DOMAIN clientResults \cap Kinds
    /\ "fileData" \in DOMAIN clientResults[k]
    /\ saved' = [fileName |-> clientResults[k].fileName,
                 type |-> MimeType(selectedFormat)]
    /\ UNCHANGED <<serverVars, selectedFormat, clientResults, clientPc, sentOptions>>

\* the reset button: results = null
Reset ==
    /\ clientResults' = EmptyObject
    /\ UNCHANGED <<serverVars, selectedFormat, clientPc, sentOptions, saved>>

ClientNext ==
    \/ FormatClick
    \/ SubmitForm
    \/ FetchOk
    \/ FetchFailed
    \/ \E k \in Kinds : Download(k)
    \/ Reset

ClientSpec == Init /\ [][ClientNext]_vars

----------------------------------------------------------------------------
(* Vocabulary of the properties *)

Arrived == req.origin # "none"
Responded == Len(responses) >= 1
Response == responses[1]
Running(k) == tasks[k] \in {"completion", "render"}
TextKinds == {"coverLetter", "email"}
NoneSelected ==
    options.kind = "object" /\ ~options.cv /\ ~options.coverLetter /\ ~options.email
AllSelected == options.cv /\ options.coverLetter /\ options.email
ResumeReturned == tailoredCVResponse # NotReturned
ResumeIsJSON == JSONParse(Trim(StripFences(tailoredCVResponse)), JSONNull).ok
WellFormed == cvData.kind = "object" /\ cvData.fields = Fields
Documents(body) == DOMAIN body \cap Kinds

----------------------------------------------------------------------------
(* Properties *)

\* C1: once a request whose upload was stored has been answered, its file
\* has been removed from the upload directory, by exactly one unlink, on
\* the success path and on every failure path.
C1_UploadRemovedExactlyOnce ==
    /\ unlinkCount <= 1
    /\ (Responded /\ UploadStored(req.file)) =>
           (UploadName \notin uploadsDir /\ unlinkCount = 1)

\* C2: a request whose options select no document is answered with an error
\* and neither parseCVContent nor callDeepSeek is ever called for it.
C2_NoneSelectedFailsValidation ==
    (Arrived /\ NoneSelected) =>
        /\ extractCalls = 0
        /\ \A p \in DOMAIN calls : calls[p] = 0
        /\ Responded => Response.status # 200

\* C3: a request with an empty job description fails and no call to the
\* completion endpoint is made for it.
C3_EmptyJobDescriptionFails ==
    (Arrived /\ req.jobDescription = "") =>
        /\ \A p \in DOMAIN calls : calls[p] = 0
        /\ Responded => Response.status # 200

\* C4: the cover-letter and email completion calls are issued only once the
\* resume completion has returned and its JSON is parsed; and with all three
\* documents selected, by the time either of the two calls has completed the
\* other one has been issued.
C4_ResumeFirstThenConcurrent ==
    /\ \A k \in TextKinds :
           calls[k] > 0 => (ResumeReturned /\ cvData.kind = "object" /\ calls["resume"] = 1)
    /\ (Arrived /\ options.kind = "object" /\ AllSelected) =>
           \A k \in TextKinds :
               (calls[k] > 0 /\ tasks[k] # "completion") =>
                   \A other \in TextKinds : calls[other] = 1

\* C4 witness: all three selected, both calls in flight at the same time.
C4_Witness ==
    /\ Arrived /\ options.kind = "object" /\ AllSelected
    /\ tasks["coverLetter"] = "completion"
    /\ tasks["email"] = "completion"
    /\ calls["coverLetter"] = 1 /\ calls["email"] = 1

\* C5: every response is either a 200 sent when every selected task has
\* succeeded, or a 500 whose body is {error: message} and carries no
\* document, whichever step failed (validation, upload rejection,
\* extraction, completion, JSON parsing, rendering).
C5_AllOrNothing ==
    \A i \in 1..Len(responses) :
        \/ /\ responses[i].status = 200
           /\ \A k \in Kinds : Selected(k) => tasks[k] = "fulfilled"
           /\ \A k \in Kinds : tasks[k] # "rejected"
        \/ /\ responses[i].status = 500
           /\ DOMAIN responses[i].body = {"error"}

\* C6: when the resume completion text is not valid JSON after the fences
\* are stripped, the request is answered with an error, no cover-letter or
\* email call is made, no document is returned, and the uploaded file is
\* gone from the upload directory once the response is sent.
C6_BadResumeJSONFailsAndCleansUp ==
    (ResumeReturned /\ ~ResumeIsJSON) =>
        /\ Responded
        /\ Response.status = 500
        /\ Documents(Response.body) = {}
        /\ calls["coverLetter"] = 0 /\ calls["email"] = 0
        /\ UploadName \notin uploadsDir

\* C7: in a 200 response a document kind is present exactly when its option
\* was selected, each present kind has preview, fileName and fileData, and
\* the file name is the candidate name, then "_CV.", "_Cover_Letter." or
\* "_Email.", then the requested format.
C7_PayloadMatchesOptions ==
    \A i \in 1..Len(responses) :
        responses[i].status = 200 =>
            LET body == responses[i].body
                name == IF "fullName" \in cvData.fields THEN FullName ELSE Undefined
            IN /\ \A k \in Kinds : (k \in DOMAIN body) <=> req.optionsStr[k]
               /\ \A k \in Documents(body) :
                      DOMAIN body[k] = {"preview", "fileName", "fileData"}
               /\ "cv" \in DOMAIN body =>
                      body["cv"].fileName = <<name, "_CV.", req.optionsStr.format>>
               /\ "coverLetter" \in DOMAIN body =>
                      body["coverLetter"].fileName =
                          <<name, "_Cover_Letter.", req.optionsStr.format>>
               /\ "email" \in DOMAIN body =>
                      body["email"].fileName = <<name, "_Email.", req.optionsStr.format>>

\* C7 witness: a 200 response that carries a resume and an email and no
\* cover letter.
C7_Witness ==
    /\ Responded
    /\ Response.status = 200
    /\ Documents(Response.body) = {"cv", "email"}
    /\ ~req.optionsStr.coverLetter

\* C8: for docx and for pdf and every non-empty selection, when extraction
\* succeeded, every completion call succeeded and the resume JSON is a
\* well-formed ResumeData, the request ends with a 200 response in which a
\* selected cover letter or email was rendered by the plain-text renderer
\* of the requested format.
C8_WellFormedRequestSucceeds ==
    (/\ pc = "done"
     /\ options.kind = "object" /\ ~NoneSelected
     /\ WellFormed
     /\ \A k \in TextKinds : Selected(k) => k \in DOMAIN results
     /\ \A k \in Kinds : ~Running(k)) =>
        /\ Response.status = 200
        /\ \A k \in TextKinds :
               Selected(k) =>
                   Response.body[k].fileData =
                       ToBase64(<<IF options.format = "pdf" THEN "generateTextPDF"
                                  ELSE "generateTextDocx", Title(k)>>)

\* C9: callDeepSeek is called at most once for the resume, once for the
\* cover letter and once for the email; the resume call is made for every
\* request that passed extraction, cv selected or not; the other two are
\* made only when their option is selected.
C9_NoRetries ==
    /\ \A p \in DOMAIN calls : calls[p] <= 1
    /\ (cvContent # Undefined) <=> (calls["resume"] = 1)
    /\ \A k \in TextKinds : calls[k] = 1 => req.optionsStr[k]

\* C9 witness: a request that passed extraction with cv not selected, its
\* resume call made and its cover-letter completion failed.
C9_Witness ==
    /\ cvContent # Undefined
    /\ options.kind = "object" /\ ~options.cv
    /\ calls["resume"] = 1
    /\ tasks["coverLetter"] = "rejected"
    /\ "coverLetter" \notin DOMAIN results

\* C10: once the response has been sent, success or error, no selected
\* task is still running.
C10_FanInBeforeResponse ==
    Responded => \A k \in Kinds : ~Running(k)

\* the request passed multer and the route handler was entered
HandlerReached == Arrived /\ ~UploadRejected(req.file)

\* C11: when every extraction, completion and rendering call settles, a
\* request that reaches the route handler is eventually answered, and it is
\* answered once: never a payload and an error, nor two of either, however
\* many fan-out tasks fail and in whatever order.
C11_ExactlyOneResponse ==
    /\ [](Len(responses) <= 1)
    /\ [][Responded => responses' = responses]_vars
    /\ HandlerReached ~> (Len(responses) = 1)

\* C11 witness: the request was answered once although two of its tasks
\* failed, the second one after the response.
C11_Witness ==
    /\ HandlerReached
    /\ Len(responses) = 1
    /\ tasks["coverLetter"] = "rejected"
    /\ tasks["email"] = "rejected"

\* C12: a downloaded file is saved with the MIME type of the format it was
\* generated in, so the type agrees with the extension of its file name,
\* also when the toggle was changed between generation and download.
C12_MimeMatchesExtension ==
    saved # NoSave =>
        /\ saved.fileName[3] = "pdf" => saved.type = PDF
        /\ saved.fileName[3] = "docx" => saved.type = DOCX

\* what fetch hands to the browser is what the route handler sends: every
\* 200 body of a browser request is one of ServerPayloads, up to the preview
PayloadsAgree ==
    (Responded /\ Response.status = 200 /\ req.origin = "browser") =>
        \E data \in ServerPayloads(options) :
            /\ DOMAIN data = DOMAIN Response.body
            /\ \A k \in Documents(data) :
                   /\ data[k].fileName = Response.body[k].fileName
                   /\ data[k].fileData = Response.body[k].fileData

====
